---- MODULE Spec2Model ----
(***************************************************************************)
(* A model of s3tool (src/s3tool/s3ops.py, src/s3tool/cli.py): the three   *)
(* bucket operations summarize_bucket, download_object and upload_file     *)
(* run one after another in one process, and S3Summary.human_readable_size.*)
(*                                                                         *)
(* Python values: a str is a TLA+ string, None is the string None below    *)
(* (no input string equals it), a dict is a function, a dataclass is a     *)
(* record. The storage service, boto3 and the local file system are the    *)
(* environment: what they answer is chosen nondeterministically.           *)
(***************************************************************************)
EXTENDS Integers, Sequences, FiniteSets, TLC

VARIABLES
    environ,    \* os.environ.get("AWS_PROFILE"), None when unset
    fs,         \* the directories that exist locally (path strings)
    store,      \* the bucket's objects as the service lists them: <<[Key, Size]>>
    pc,         \* where the process is: "idle", "paginate", "download_file",
                \* "upload_file", "returned", "raised"
    call,       \* the arguments of the operation in progress
    session,    \* the boto3.Session built by _session for this call
    request,    \* the request last handed to the S3 client
    listed,     \* what the service holds for the listing request (sizes)
    rem,        \* the part of the listing the paginator has not returned yet
    pages,      \* pages fetched by the current summarize_bucket
    count,      \* summarize_bucket's local count
    total,      \* summarize_bucket's local total
    result,     \* the value returned by the operation
    exc,        \* the exception that left the operation
    sdk_exc,    \* the exception the failing library call raised
    made,       \* the argument download_object gave os.makedirs
    history,    \* the previous completed summarize_bucket: its call and result
    nops,       \* operations started in this process
    hbytes,     \* human_readable_size: self.total_bytes, base-1024 digits
    hshift,     \* human_readable_size: how often size was divided by 1024
    hpc,        \* human_readable_size: "loop", "after_loop", "returned"
    hout        \* human_readable_size: the string returned

vars == <<environ, fs, store, pc, call, session, request, listed, rem, pages,
          count, total, result, exc, sdk_exc, made, history, nops, hbytes, hshift, hpc, hout>>

opvars == <<environ, fs, store, pc, call, session, request, listed, rem, pages,
            count, total, result, exc, sdk_exc, made, history, nops>>

fmtvars == <<hbytes, hshift, hpc, hout>>

(***************************************************************************)
(* Bounds of the model.                                                    *)
(***************************************************************************)
MaxOps == 2          \* operations one process runs
MaxPages == 4        \* pages the service may take to return one listing
MaxDigits == 8       \* base-1024 digits of total_bytes (8 digits: up to 2^80)

(***************************************************************************)
(* Python values.                                                          *)
(***************************************************************************)
None == "<None>"

Truthy(s) == s # None /\ s # ""

Or(a, b) == IF Truthy(a) THEN a ELSE b

Max(S) == CHOOSE x \in S : \A y \in S : y <= x

Char(s, i) == SubSeq(s, i, i)

StartsWith(s, p) == Len(p) <= Len(s) /\ SubSeq(s, 1, Len(p)) = p

EmptyDict == [k \in {} |-> ""]

DictSet(d, k, v) == [x \in (DOMAIN d) \cup {k} |-> IF x = k THEN v ELSE d[x]]

(***************************************************************************)
(* Exceptions. cls is the Python class, msg is str(e), cause is the class  *)
(* of __cause__.                                                           *)
(***************************************************************************)
NoExc == [cls |-> None, msg |-> "", cause |-> None]

Exc(cls, msg) == [cls |-> cls, msg |-> msg, cause |-> None]

\* Error responses of the service: botocore raises them as ClientError.
NotFound == Exc("ClientError", "An error occurred (404): Not Found")
AccessDenied == Exc("ClientError", "An error occurred (AccessDenied): Access Denied")
InvalidAccessKeyId == Exc("ClientError", "An error occurred (InvalidAccessKeyId)")
NoSuchBucket == Exc("ClientError", "An error occurred (NoSuchBucket)")
\* Failures botocore raises on the client side: subclasses of BotoCoreError,
\* which is not a ClientError.
EndpointConnectionError == Exc("EndpointConnectionError", "Could not connect to the endpoint URL")
NoCredentialsError == Exc("NoCredentialsError", "Unable to locate credentials")
\* boto3's upload_file re-raises a ClientError of the transfer as this class.
S3UploadFailedError == Exc("S3UploadFailedError", "Failed to upload: An error occurred (AccessDenied)")
\* Local I/O errors: subclasses of OSError.
PermissionError == Exc("PermissionError", "[Errno 13] Permission denied")
FileNotFoundError == Exc("FileNotFoundError", "[Errno 2] No such file or directory")

ServiceErrors == {NotFound, AccessDenied, InvalidAccessKeyId, NoSuchBucket}

NetworkErrors == {EndpointConnectionError}

AuthErrors == {NoCredentialsError, InvalidAccessKeyId, AccessDenied}

LocalIOErrors == {PermissionError, FileNotFoundError}

\* `except ClientError as e`
IsClientError(e) == e.cls = "ClientError"

(***************************************************************************)
(* The inputs the operations are called with.                              *)
(***************************************************************************)
Buckets == {"my-bucket"}

Keys == {"missing-key"}

Prefixes == {None, "", "a/"}

Profiles == {None, "", "dev", "prod"}

Regions == {None, "eu-west-1"}

DestPaths == {"out.bin", "a/file.txt", "a/b/c/file.txt"}

SrcPaths == {"./report.csv"}

ContentTypes == {None, "", "text/csv"}

SseModes == {None, "AES256"}

Acls == {None, "private"}

\* What the bucket may hold: each of three keys absent or present, in the
\* service's (lexicographic) order.
KeyList == <<"a/1", "a/2", "b">>

ObjectSize(key) == CASE key = "a/1" -> 7 [] key = "a/2" -> 0 [] OTHER -> 1024

RECURSIVE StoreSeqs(_)
StoreSeqs(i) ==
    IF i > Len(KeyList) THEN {<<>>}
    ELSE LET rest == StoreSeqs(i + 1)
         IN  rest \cup {<<[Key |-> KeyList[i], Size |-> ObjectSize(KeyList[i])]>> \o r :
                            r \in rest}

Stores == StoreSeqs(1)

(***************************************************************************)
(* Storage Client Adapter: _session and _s3_client.                        *)
(***************************************************************************)
NoSession == [profile_name |-> None, region_name |-> None, env_profile |-> None,
              built |-> FALSE]

\* A variant that assigns whenever a profile is given, the empty one included.
SessionEnvironAssignsEmpty(aws_profile, env) ==
    IF aws_profile # None THEN aws_profile ELSE env

\* os.environ["AWS_PROFILE"] after `if aws_profile: os.environ[...] = aws_profile`
SessionEnviron(aws_profile, env) ==
    IF Truthy(aws_profile) THEN aws_profile ELSE env

\* boto3.Session(profile_name=aws_profile or None, region_name=region or None),
\* built after the assignment: env_profile is the environment it is built in.
Session(aws_profile, region, env) ==
    [profile_name |-> Or(aws_profile, None),
     region_name |-> Or(region, None),
     env_profile |-> SessionEnviron(aws_profile, env),
     built |-> TRUE]

MaxAttempts == 10
ConnectTimeout == 5
ReadTimeout == 60

\* Config(retries={"max_attempts": 10, "mode": "standard"}, connect_timeout=5, read_timeout=60)
ClientConfig ==
    [max_attempts |-> MaxAttempts, mode |-> "standard",
     connect_timeout |-> ConnectTimeout, read_timeout |-> ReadTimeout]

S3Client(aws_profile, region, env) ==
    [session |-> Session(aws_profile, region, env), service |-> "s3",
     config |-> ClientConfig]

(***************************************************************************)
(* Calls, requests and results.                                            *)
(***************************************************************************)
NoCall ==
    [op |-> None, bucket |-> None, key |-> None, prefix |-> None,
     dest_path |-> None, src_path |-> None, content_type |-> None,
     sse |-> None, acl |-> None, aws_profile |-> None, region |-> None]

NoRequest ==
    [api |-> None, Bucket |-> None, Key |-> None, Prefix |-> None,
     Filename |-> None, has_extra |-> FALSE, ExtraArgs |-> EmptyDict]

NoResult == [type |-> "none"]

NoHistory == [valid |-> FALSE, prefix |-> None, request |-> NoRequest, result |-> NoResult]

\* S3Summary(bucket=bucket, prefix=prefix, object_count=count, total_bytes=total)
S3Summary(bucket, prefix, cnt, tot) ==
    [type |-> "S3Summary", bucket |-> bucket, prefix |-> prefix,
     object_count |-> cnt, total_bytes |-> tot]

\* raise RuntimeError(msg) from e
RuntimeError(msg, e) == [cls |-> "RuntimeError", msg |-> msg, cause |-> e.cls]

(***************************************************************************)
(* summarize_bucket.                                                       *)
(***************************************************************************)
\* A variant that hands the prefix over as given: Prefix=prefix.
ListRequestPrefixAsGiven(bucket, prefix) ==
    [NoRequest EXCEPT !.api = "list_objects_v2", !.Bucket = bucket,
                      !.Prefix = prefix]

\* paginator.paginate(Bucket=bucket, Prefix=prefix or "")
ListRequest(bucket, prefix) ==
    [NoRequest EXCEPT !.api = "list_objects_v2", !.Bucket = bucket,
                      !.Prefix = Or(prefix, "")]

\* What the service lists for a request: the objects whose key starts with Prefix.
ServiceListing(st, req) ==
    SelectSeq(st, LAMBDA o : StartsWith(o.Key, req.Prefix))

\* One page of a ListObjectsV2 answer. The service leaves "Contents" out of a
\* page that carries no objects.
Page(objs, truncated, with_contents) ==
    IF with_contents
    THEN [k \in {"IsTruncated", "Contents"} |->
             IF k = "Contents" THEN objs ELSE truncated]
    ELSE [k \in {"IsTruncated"} |-> truncated]

\* page.get("Contents", [])
PageContents(page) ==
    IF "Contents" \in DOMAIN page THEN page["Contents"] ELSE <<>>

RECURSIVE SumSizes(_)
SumSizes(objs) ==
    IF objs = <<>> THEN 0 ELSE Head(objs).Size + SumSizes(Tail(objs))

\* A variant that counts once per page instead of once per object.
AggregateCountsPages(cnt, tot, page) ==
    [count |-> cnt + 1,
     total |-> tot + SumSizes(PageContents(page))]

\* for obj in page.get("Contents", []): count += 1; total += int(obj["Size"])
Aggregate(cnt, tot, page) ==
    [count |-> cnt + Len(PageContents(page)),
     total |-> tot + SumSizes(PageContents(page))]

\* What a page fetch may raise.
ListErrors == {NoSuchBucket, AccessDenied, InvalidAccessKeyId,
               EndpointConnectionError, NoCredentialsError}

SummarizeStart(bucket, prefix, prof, reg) ==
    /\ pc = "idle"
    /\ nops < MaxOps
    /\ call' = [NoCall EXCEPT !.op = "summarize", !.bucket = bucket,
                              !.prefix = prefix, !.aws_profile = prof,
                              !.region = reg]
    /\ environ' = SessionEnviron(prof, environ)
    /\ session' = S3Client(prof, reg, environ).session
    /\ request' = ListRequest(bucket, prefix)
    /\ listed' = ServiceListing(store, request')
    /\ rem' = listed'
    /\ pages' = 0
    /\ count' = 0
    /\ total' = 0
    /\ pc' = "paginate"
    /\ nops' = nops + 1
    /\ UNCHANGED <<fs, store, result, exc, sdk_exc, made, history>>
    /\ UNCHANGED fmtvars

\* The paginator fetches the next page and the loop body aggregates it; when
\* the page says nothing remains the loop ends and the summary is returned.
SummarizePage ==
    /\ pc = "paginate"
    /\ pages < MaxPages
    /\ \E n \in 0..Len(rem), more \in BOOLEAN, with_contents \in BOOLEAN :
          /\ n > 0 => with_contents
          /\ ~more => n = Len(rem)
          /\ more => pages + 1 < MaxPages
          /\ LET page == Page(SubSeq(rem, 1, n), more, with_contents)
                 agg == Aggregate(count, total, page)
             IN  /\ rem' = SubSeq(rem, n + 1, Len(rem))
                 /\ pages' = pages + 1
                 /\ count' = agg.count
                 /\ total' = agg.total
                 /\ IF page["IsTruncated"]
                    THEN pc' = "paginate" /\ result' = result
                    ELSE /\ pc' = "returned"
                         /\ result' = S3Summary(call.bucket, call.prefix,
                                                agg.count, agg.total)
    /\ UNCHANGED <<environ, fs, store, call, session, request, listed, exc,
                   sdk_exc, made, history, nops>>
    /\ UNCHANGED fmtvars

\* A variant that catches the error and returns what was aggregated so far.
SummarizePageFailReturnsPartial ==
    /\ pc = "paginate"
    /\ pages < MaxPages
    /\ \E e \in ListErrors : sdk_exc' = e
    /\ pc' = "returned"
    /\ result' = S3Summary(call.bucket, call.prefix, count, total)
    /\ UNCHANGED <<environ, fs, store, call, session, request, listed, rem,
                   pages, count, total, exc, made, history, nops>>
    /\ UNCHANGED fmtvars

\* A page fetch raises: nothing in summarize_bucket catches it.
SummarizePageFail ==
    /\ pc = "paginate"
    /\ pages < MaxPages
    /\ \E e \in ListErrors :
          /\ sdk_exc' = e
          /\ exc' = e
    /\ pc' = "raised"
    /\ UNCHANGED <<environ, fs, store, call, session, request, listed, rem,
                   pages, count, total, result, made, history, nops>>
    /\ UNCHANGED fmtvars

(***************************************************************************)
(* download_object.                                                        *)
(***************************************************************************)
\* os.path.dirname(p): everything before the last "/", its trailing slashes
\* stripped unless it is all slashes.
RFindSlash(p) ==
    LET S == {i \in 1..Len(p) : Char(p, i) = "/"}
    IN  IF S = {} THEN 0 ELSE Max(S)

AllSlashes(h) == \A j \in 1..Len(h) : Char(h, j) = "/"

RECURSIVE RStripSlash(_)
RStripSlash(h) ==
    IF h # "" /\ Char(h, Len(h)) = "/"
    THEN RStripSlash(SubSeq(h, 1, Len(h) - 1))
    ELSE h

Dirname(p) ==
    LET head == SubSeq(p, 1, RFindSlash(p))
    IN  IF head # "" /\ ~AllSlashes(head) THEN RStripSlash(head) ELSE head

\* The argument of os.makedirs: os.path.dirname(dest_path) or "."
MakedirsArg(dest_path) == Or(Dirname(dest_path), ".")

\* A variant that creates the last directory only, as os.mkdir does.
MakedirsChainLastOnly(name) == {name}

\* The directories os.makedirs(name) makes sure of: name and every leading
\* part of it that ends a component, shortest first when created.
MakedirsChain(name) ==
    {SubSeq(name, 1, i) : i \in {j \in 1..Len(name) :
        /\ Char(name, j) # "/"
        /\ (j = Len(name) \/ Char(name, j + 1) = "/")}}

\* s3.download_file(bucket, key, dest_path)
DownloadRequest(bucket, key, dest_path) ==
    [NoRequest EXCEPT !.api = "download_file", !.Bucket = bucket, !.Key = key,
                      !.Filename = dest_path]

\* A variant that catches every exception: `except Exception as e`.
DownloadRaiseCatchesAll(e, bucket, key) ==
    RuntimeError("Failed to download s3://" \o bucket \o "/" \o key
                 \o ": " \o e.msg, e)

\* except ClientError as e: raise RuntimeError(f"Failed to download s3://{bucket}/{key}: {e}") from e
DownloadRaise(e, bucket, key) ==
    IF IsClientError(e)
    THEN RuntimeError("Failed to download s3://" \o bucket \o "/" \o key
                      \o ": " \o e.msg, e)
    ELSE e

\* What os.makedirs may raise, and what the transfer call may raise.
MakedirsErrors == {PermissionError}

DownloadErrors == {NotFound, AccessDenied, InvalidAccessKeyId,
                   EndpointConnectionError, NoCredentialsError, PermissionError}

\* The client is built, then os.makedirs(..., exist_ok=True) either makes sure
\* of the whole chain, or fails at a directory it has to create, the shorter
\* ones created.
DownloadStart(bucket, key, dest_path, prof, reg) ==
    /\ pc = "idle"
    /\ nops < MaxOps
    /\ call' = [NoCall EXCEPT !.op = "download", !.bucket = bucket,
                              !.key = key, !.dest_path = dest_path,
                              !.aws_profile = prof, !.region = reg]
    /\ environ' = SessionEnviron(prof, environ)
    /\ session' = S3Client(prof, reg, environ).session
    /\ made' = MakedirsArg(dest_path)
    /\ nops' = nops + 1
    /\ \/ /\ made' # ""
          /\ fs' = fs \cup MakedirsChain(made')
          /\ request' = DownloadRequest(bucket, key, dest_path)
          /\ pc' = "download_file"
          /\ UNCHANGED <<exc, sdk_exc>>
       \/ /\ made' # ""
          /\ \E d \in MakedirsChain(made') \ fs, e \in MakedirsErrors :
                /\ fs' = fs \cup {c \in MakedirsChain(made') : Len(c) < Len(d)}
                /\ sdk_exc' = e
                /\ exc' = e
          /\ pc' = "raised"
          /\ UNCHANGED request
       \/ /\ made' = ""
          /\ sdk_exc' = FileNotFoundError
          /\ exc' = FileNotFoundError
          /\ pc' = "raised"
          /\ UNCHANGED <<fs, request>>
    /\ UNCHANGED <<store, listed, rem, pages, count, total, result, history>>
    /\ UNCHANGED fmtvars

DownloadTransfer ==
    /\ pc = "download_file"
    /\ \/ /\ pc' = "returned"
          /\ result' = [type |-> "str", value |-> call.dest_path]
          /\ UNCHANGED <<exc, sdk_exc>>
       \/ /\ \E e \in DownloadErrors :
                /\ sdk_exc' = e
                /\ exc' = DownloadRaise(e, call.bucket, call.key)
          /\ pc' = "raised"
          /\ UNCHANGED result
    /\ UNCHANGED <<environ, fs, store, call, session, request, listed, rem,
                   pages, count, total, made, history, nops>>
    /\ UNCHANGED fmtvars

(***************************************************************************)
(* upload_file.                                                            *)
(***************************************************************************)
\* A variant that sends an ACL of its own choosing when none is given.
ExtraArgsDefaultAcl(content_type, sse, acl) ==
    LET e0 == EmptyDict
        e1 == IF Truthy(content_type) THEN DictSet(e0, "ContentType", content_type) ELSE e0
        e2 == IF Truthy(sse) THEN DictSet(e1, "ServerSideEncryption", sse) ELSE e1
    IN  DictSet(e2, "ACL", Or(acl, "private"))

\* extra_args = {}; if content_type: ...; if sse: ...; if acl: ...
ExtraArgs(content_type, sse, acl) ==
    LET e0 == EmptyDict
        e1 == IF Truthy(content_type) THEN DictSet(e0, "ContentType", content_type) ELSE e0
        e2 == IF Truthy(sse) THEN DictSet(e1, "ServerSideEncryption", sse) ELSE e1
        e3 == IF Truthy(acl) THEN DictSet(e2, "ACL", acl) ELSE e2
    IN  e3

\* if extra_args: s3.upload_file(src_path, bucket, key, ExtraArgs=extra_args)
\* else:          s3.upload_file(src_path, bucket, key)
UploadRequest(src_path, bucket, key, extra_args) ==
    [NoRequest EXCEPT !.api = "upload_file", !.Filename = src_path,
                      !.Bucket = bucket, !.Key = key,
                      !.has_extra = (DOMAIN extra_args # {}),
                      !.ExtraArgs = IF DOMAIN extra_args # {} THEN extra_args
                                    ELSE EmptyDict]

\* except ClientError as e: raise RuntimeError(f"Failed to upload {src_path} to s3://{bucket}/{key}: {e}") from e
UploadRaise(e, src_path, bucket, key) ==
    IF IsClientError(e)
    THEN RuntimeError("Failed to upload " \o src_path \o " to s3://" \o bucket
                      \o "/" \o key \o ": " \o e.msg, e)
    ELSE e

\* What the put call may raise.
UploadErrors == {AccessDenied, NoSuchBucket, S3UploadFailedError,
                 EndpointConnectionError, NoCredentialsError, FileNotFoundError}

UploadStart(src_path, bucket, key, content_type, sse, acl, prof, reg) ==
    /\ pc = "idle"
    /\ nops < MaxOps
    /\ call' = [NoCall EXCEPT !.op = "upload", !.src_path = src_path,
                              !.bucket = bucket, !.key = key,
                              !.content_type = content_type, !.sse = sse,
                              !.acl = acl, !.aws_profile = prof, !.region = reg]
    /\ environ' = SessionEnviron(prof, environ)
    /\ session' = S3Client(prof, reg, environ).session
    /\ request' = UploadRequest(src_path, bucket, key,
                                ExtraArgs(content_type, sse, acl))
    /\ pc' = "upload_file"
    /\ nops' = nops + 1
    /\ UNCHANGED <<fs, store, listed, rem, pages, count, total, result, exc,
                   sdk_exc, made, history>>
    /\ UNCHANGED fmtvars

UploadPut ==
    /\ pc = "upload_file"
    /\ \/ /\ pc' = "returned"
          /\ result' = [type |-> "tuple", value |-> <<call.bucket, call.key>>]
          /\ UNCHANGED <<exc, sdk_exc>>
       \/ /\ \E e \in UploadErrors :
                /\ sdk_exc' = e
                /\ exc' = UploadRaise(e, call.src_path, call.bucket, call.key)
          /\ pc' = "raised"
          /\ UNCHANGED result
    /\ UNCHANGED <<environ, fs, store, call, session, request, listed, rem,
                   pages, count, total, made, history, nops>>
    /\ UNCHANGED fmtvars

(***************************************************************************)
(* The caller takes the result or the exception and the process goes on.   *)
(***************************************************************************)
Finish ==
    /\ pc \in {"returned", "raised"}
    /\ history' = IF pc = "returned" /\ call.op = "summarize"
                  THEN [valid |-> TRUE, prefix |-> call.prefix,
                        request |-> request, result |-> result]
                  ELSE history
    /\ pc' = "idle"
    /\ call' = NoCall
    /\ session' = NoSession
    /\ request' = NoRequest
    /\ listed' = <<>>
    /\ rem' = <<>>
    /\ pages' = 0
    /\ count' = 0
    /\ total' = 0
    /\ result' = NoResult
    /\ exc' = NoExc
    /\ sdk_exc' = NoExc
    /\ made' = None
    /\ UNCHANGED <<environ, fs, store, nops>>
    /\ UNCHANGED fmtvars

FmtIdle ==
    /\ hbytes = <<0>>
    /\ hshift = 0
    /\ hpc = "idle"
    /\ hout = None

OpsIdle ==
    /\ environ = None
    /\ fs = {".", "/"}
    /\ pc = "idle"
    /\ call = NoCall
    /\ session = NoSession
    /\ request = NoRequest
    /\ listed = <<>>
    /\ rem = <<>>
    /\ pages = 0
    /\ count = 0
    /\ total = 0
    /\ result = NoResult
    /\ exc = NoExc
    /\ sdk_exc = NoExc
    /\ made = None
    /\ history = NoHistory
    /\ nops = 0

Init ==
    /\ OpsIdle
    /\ store \in Stores
    /\ FmtIdle

Next ==
    \/ \E b \in Buckets, p \in Prefixes, prof \in Profiles, reg \in Regions :
          SummarizeStart(b, p, prof, reg)
    \/ SummarizePage
    \/ SummarizePageFail
    \/ \E b \in Buckets, k \in Keys, d \in DestPaths, prof \in Profiles,
          reg \in Regions :
          DownloadStart(b, k, d, prof, reg)
    \/ DownloadTransfer
    \/ \E src \in SrcPaths, b \in Buckets, k \in Keys, ct \in ContentTypes,
          sse \in SseModes, acl \in Acls, prof \in Profiles, reg \in Regions :
          UploadStart(src, b, k, ct, sse, acl, prof, reg)
    \/ UploadPut
    \/ Finish

Spec == Init /\ [][Next]_vars

(***************************************************************************)
(* S3Summary.human_readable_size. total_bytes is held as its base-1024     *)
(* digits, most significant first (<<0>> is 0), and size after k divisions *)
(* is that number with the last k digits behind the point: dividing a      *)
(* float by 1024 is exact, and the inputs have at most 50 significant bits *)
(* so that the conversion of total_bytes to float is exact as well.        *)
(***************************************************************************)
Base == 1024

Units == <<"B", "KB", "MB", "GB", "TB", "PB">>

RECURSIVE ToDigits(_)
ToDigits(n) ==
    IF n < Base THEN <<n>> ELSE Append(ToDigits(n \div Base), n % Base)

RECURSIVE ToInt(_)
ToInt(ds) ==
    IF ds = <<>> THEN 0
    ELSE ToInt(SubSeq(ds, 1, Len(ds) - 1)) * Base + ds[Len(ds)]

IntDigits(ds, shift) == SubSeq(ds, 1, Len(ds) - shift)

FracDigits(ds, shift) == SubSeq(ds, Len(ds) - shift + 1, Len(ds))

\* A variant with the comparison off by one: size <= 1024.
SizeBelowOrEqual(ds, shift) ==
    \/ Len(ds) - shift <= 1
    \/ /\ Len(ds) - shift = 2
       /\ ds[1] = 1
       /\ \A i \in 2..Len(ds) : ds[i] = 0

\* if size < 1024
SizeBelow(ds, shift) == Len(ds) - shift <= 1

\* m times the fraction 0.fd: the integer part (carry) and the fraction left
RECURSIVE MulFrac(_, _)
MulFrac(fd, m) ==
    IF fd = <<>> THEN [carry |-> 0, frac |-> <<>>]
    ELSE LET r == MulFrac(Tail(fd), m)
             t == m * Head(fd) + r.carry
         IN  [carry |-> t \div Base, frac |-> <<t % Base>> \o r.frac]

Pad2(h) == IF h < 10 THEN "0" \o ToString(h) ELSE ToString(h)

\* f"{size:.2f}": the decimal with two digits nearest to size, a tie going to
\* the even one
Format2f(ds, shift) ==
    LET whole == ToInt(IntDigits(ds, shift))
        m == MulFrac(FracDigits(ds, shift), 100)
        half == Base \div 2
        above == /\ m.frac # <<>>
                 /\ \/ m.frac[1] > half
                    \/ /\ m.frac[1] = half
                       /\ \E i \in 2..Len(m.frac) : m.frac[i] # 0
        tie == /\ m.frac # <<>>
               /\ m.frac[1] = half
               /\ \A i \in 2..Len(m.frac) : m.frac[i] = 0
        h == IF above \/ (tie /\ m.carry % 2 = 1) THEN m.carry + 1 ELSE m.carry
    IN  IF h = 100 THEN ToString(whole + 1) \o ".00"
        ELSE ToString(whole) \o "." \o Pad2(h)

\* return f"{size:.2f} {unit}"
FormatSize(ds, shift, unit) == Format2f(ds, shift) \o " " \o unit

\* The values formatted: up to MaxDigits digits, the first three free and
\* the others zero, and the values the documentation gives.
DigitVals == {0, 1, 128, 512, 1023}

Zeros(n) == [i \in 1..n |-> 0]

FmtInputs ==
    {<<a>> : a \in DigitVals}
    \cup {<<a, b>> : a \in DigitVals \ {0}, b \in DigitVals}
    \cup {<<a, b, c>> \o Zeros(n) : a \in DigitVals \ {0}, b \in DigitVals,
                                    c \in DigitVals, n \in 0..(MaxDigits - 3)}
    \cup {ToDigits(1536), ToDigits(1048575), <<1, 372, 1007, 486, 0>>}

FmtReturn ==
    /\ hpc = "loop"
    /\ hshift < Len(Units)
    /\ SizeBelow(hbytes, hshift)
    /\ hout' = FormatSize(hbytes, hshift, Units[hshift + 1])
    /\ hpc' = "returned"
    /\ UNCHANGED <<hbytes, hshift>>
    /\ UNCHANGED opvars

\* size /= 1024, and the loop goes to the next unit
FmtDivide ==
    /\ hpc = "loop"
    /\ hshift < Len(Units)
    /\ ~SizeBelow(hbytes, hshift)
    /\ hshift' = hshift + 1
    /\ UNCHANGED <<hbytes, hpc, hout>>
    /\ UNCHANGED opvars

\* return f"{size:.2f} EB"
FmtReturnEB ==
    /\ hpc = "loop"
    /\ hshift = Len(Units)
    /\ hout' = FormatSize(hbytes, hshift, "EB")
    /\ hpc' = "returned"
    /\ UNCHANGED <<hbytes, hshift>>
    /\ UNCHANGED opvars

FmtInit ==
    /\ OpsIdle
    /\ store = <<>>
    /\ hbytes \in FmtInputs
    /\ hshift = 0
    /\ hpc = "loop"
    /\ hout = None

FmtNext == FmtReturn \/ FmtDivide \/ FmtReturnEB

FmtSpec == FmtInit /\ [][FmtNext]_vars

(***************************************************************************)
(* The claims.                                                             *)
(***************************************************************************)
Summarized == pc = "returned" /\ call.op = "summarize"

\* C1: when summarize_bucket returns, every page has been fetched, and the
\* summary's object_count is the number of objects the service lists for the
\* request and its total_bytes the sum of their sizes, however the service
\* split the listing into pages (pages without objects included); for an
\* empty listing both are 0 and no error is raised.
C1_SummaryCountsEveryObject ==
    Summarized =>
        /\ rem = <<>>
        /\ result.type = "S3Summary"
        /\ result.object_count = Len(listed)
        /\ result.total_bytes = SumSizes(listed)
        /\ listed = ServiceListing(store, request)
        /\ exc = NoExc
        /\ listed = <<>> => result.object_count = 0 /\ result.total_bytes = 0

\* Three objects returned over four pages: one page at least carried none.
C1_Witness ==
    /\ Summarized
    /\ Len(listed) = 3
    /\ pages = 4
    /\ result.object_count = 3
    /\ result.total_bytes = 1031

\* The errors of the storage side: error responses of the service and
\* network failures.
StorageSideErrors == ServiceErrors \cup NetworkErrors

\* C2: every storage-side error of the transfer call (object not found,
\* access denied, network failure) leaves download_object as one RuntimeError
\* whose message holds the bucket, the key and the cause's description.
C2_DownloadWrapsEveryStorageError ==
    (pc = "raised" /\ call.op = "download" /\ sdk_exc \in StorageSideErrors) =>
        /\ exc.cls = "RuntimeError"
        /\ exc.msg = "Failed to download s3://" \o call.bucket \o "/"
                     \o call.key \o ": " \o sdk_exc.msg

\* C3: every storage-side error of the put call leaves upload_file as one
\* RuntimeError whose message holds the source path, the bucket, the key and
\* the cause's description; a successful upload returns (bucket, key) as given.
C3_UploadWrapsEveryStorageError ==
    /\ (pc = "raised" /\ call.op = "upload"
            /\ sdk_exc \in StorageSideErrors \cup {S3UploadFailedError}) =>
          /\ exc.cls = "RuntimeError"
          /\ exc.msg = "Failed to upload " \o call.src_path \o " to s3://"
                       \o call.bucket \o "/" \o call.key \o ": " \o sdk_exc.msg
    /\ (pc = "returned" /\ call.op = "upload") =>
          result = [type |-> "tuple", value |-> <<call.bucket, call.key>>]

\* The put call's option names and the values upload_file was called with.
OptionValue(c, name) ==
    CASE name = "ContentType" -> c.content_type
      [] name = "ServerSideEncryption" -> c.sse
      [] OTHER -> c.acl

OptionNames == {"ContentType", "ServerSideEncryption", "ACL"}

UploadIssued == call.op = "upload" /\ pc \in {"upload_file", "returned", "raised"}

Forwards(names) ==
    /\ request.api = "upload_file"
    /\ request.Filename = call.src_path
    /\ request.Bucket = call.bucket
    /\ request.Key = call.key
    /\ DOMAIN request.ExtraArgs = names
    /\ \A n \in names : request.ExtraArgs[n] = OptionValue(call, n)
    /\ request.has_extra = (names # {})

\* C4 (as amended): the put call gets exactly the options supplied with a
\* non-empty value, each with that value; an option omitted or given as the
\* empty string is not sent, and with none to send no ExtraArgs is passed.
C4_ForwardsNonEmptyOptions ==
    UploadIssued =>
        Forwards({n \in OptionNames : OptionValue(call, n) \notin {None, ""}})

\* C4 (as stated): the put call gets exactly the options that were supplied
\* with a string value.
C4_ForwardsEverySuppliedOption ==
    UploadIssued =>
        Forwards({n \in OptionNames : OptionValue(call, n) # None})

\* An empty content type is dropped while the encryption mode is sent.
C4_Witness ==
    /\ UploadIssued
    /\ call.content_type = ""
    /\ call.sse = "AES256"
    /\ call.acl = None
    /\ DOMAIN request.ExtraArgs = {"ServerSideEncryption"}

\* C5: a failing page fetch ends summarize_bucket with that very error and
\* without a summary, whatever was aggregated before; after it no page is
\* fetched, the scan is not taken up again and no summary is recorded.
C5_FailedScanReturnsNothing ==
    [][/\ (call'.op = "summarize" /\ sdk_exc' # NoExc) =>
              /\ pc' = "raised"
              /\ result' = NoResult
              /\ exc' = sdk_exc'
              /\ exc' \in ListErrors
       /\ (call.op = "summarize" /\ pc = "raised") =>
              /\ pc' = "idle"
              /\ result' = NoResult
              /\ history' = history
              /\ pages' = 0
              /\ nops' = nops]_vars

\* The third page fetch fails after objects were counted.
C5_Witness ==
    /\ pc = "raised"
    /\ call.op = "summarize"
    /\ pages = 2
    /\ count = 2
    /\ total > 0
    /\ result = NoResult

AllUnits == <<"B", "KB", "MB", "GB", "TB", "PB", "EB">>

RECURSIVE Pow(_, _)
Pow(b, e) == IF e = 0 THEN 1 ELSE b * Pow(b, e - 1)

Abs(x) == IF x < 0 THEN -x ELSE x

Formatted(v) == hpc = "returned" /\ hbytes = v

\* C7: human_readable_size returns the value scaled by 1024 to the first of
\* B, KB, MB, GB, TB, PB where it is below 1024 (EB after PB, whatever the
\* value), as a decimal with two digits after the point that is within half
\* a hundredth of the scaled value, a space and the unit: 0 gives "0.00 B",
\* 1023 "1023.00 B", 1024 "1.00 KB", 1536 "1.50 KB", 1048576 "1.00 MB" and
\* 1500000000000 "1.36 TB".
C7_HumanReadableSize ==
    hpc = "returned" =>
        LET n == Len(hbytes)
            k == IF n - 1 < 6 THEN n - 1 ELSE 6
            unit == AllUnits[k + 1]
            whole == ToInt(SubSeq(hbytes, 1, n - k))
            f1 == IF k >= 1 THEN hbytes[n - k + 1] ELSE 0
            f2 == IF k >= 2 THEN hbytes[n - k + 2] ELSE 0
            exact == \A i \in (n - k + 3)..n : hbytes[i] = 0
        IN  /\ hshift = k
            /\ n <= 3 => /\ ToInt(hbytes) < Pow(1024, k + 1)
                         /\ k > 0 => ToInt(hbytes) >= Pow(1024, k)
            /\ exact =>
                  \E q \in 0..100 :
                     /\ hout = ToString(whole + (q \div 100)) \o "."
                                 \o Pad2(q % 100) \o " " \o unit
                     /\ 2 * Abs(q * Pow(1024, 2) - 100 * (f1 * 1024 + f2))
                            <= Pow(1024, 2)
            /\ Formatted(ToDigits(0)) => hout = "0.00 B"
            /\ Formatted(ToDigits(1023)) => hout = "1023.00 B"
            /\ Formatted(ToDigits(1024)) => hout = "1.00 KB"
            /\ Formatted(ToDigits(1536)) => hout = "1.50 KB"
            /\ Formatted(ToDigits(1048576)) => hout = "1.00 MB"
            /\ Formatted(<<1, 372, 1007, 486, 0>>) => hout = "1.36 TB"

\* 1024 bytes are the first value printed in KB.
C7_Witness == Formatted(ToDigits(1024)) /\ hout = "1.00 KB" /\ hshift = 1

WholeBucket(p) == p \in {None, ""}

\* C8 (as amended): summarize_bucket with the empty prefix and with no
\* prefix send the same listing request (Prefix "") over the whole bucket
\* and return the same object_count and total_bytes; the summary's prefix is
\* the argument as given, "" in one and None in the other.
C8_EmptyPrefixSameScan ==
    /\ (call.op = "summarize" /\ WholeBucket(call.prefix)) =>
          /\ request.Prefix = ""
          /\ request.Bucket = call.bucket
          /\ Len(listed) = Len(store)
    /\ (Summarized /\ WholeBucket(call.prefix) /\ history.valid
            /\ WholeBucket(history.prefix)) =>
          /\ history.request = request
          /\ history.result.object_count = result.object_count
          /\ history.result.total_bytes = result.total_bytes
          /\ history.result.bucket = result.bucket
          /\ result.prefix = call.prefix
          /\ history.result.prefix = history.prefix

\* C8 (as stated): summarize_bucket with the empty prefix and with no prefix
\* send the same listing request and return the same summary.
C8_EmptyPrefixSameSummary ==
    (Summarized /\ WholeBucket(call.prefix) /\ history.valid
        /\ WholeBucket(history.prefix)) =>
          /\ history.request = request
          /\ history.result = result

\* A scan with no prefix, then one with the empty prefix, of three objects.
C8_Witness ==
    /\ Summarized
    /\ history.valid
    /\ history.prefix = None
    /\ call.prefix = ""
    /\ result.object_count = 3
    /\ history.result.object_count = 3

\* The directories that have to exist for each destination.
ParentDirs(dest_path) ==
    CASE dest_path = "a/b/c/file.txt" -> {"a", "a/b", "a/b/c"}
      [] dest_path = "a/file.txt" -> {"a"}
      [] OTHER -> {"."}

\* C9: while the transfer call of download_object is issued, and after it,
\* every directory on the way to the destination exists (the one made sure
\* of is "." for a destination without a directory part), and a successful
\* download returns the destination path as given. The call ends before the
\* transfer only when a directory that was missing could not be created:
\* directories that exist already are no error.
C9_ParentDirsBeforeTransfer ==
    /\ (call.op = "download" /\ pc \in {"download_file", "returned"}) =>
          /\ ParentDirs(call.dest_path) \subseteq fs
          /\ request.api = "download_file"
          /\ request.Filename = call.dest_path
          /\ call.dest_path = "out.bin" => made = "."
          /\ pc = "returned" => result = [type |-> "str", value |-> call.dest_path]
    /\ (call.op = "download" /\ pc = "raised" /\ request = NoRequest) =>
          ~(ParentDirs(call.dest_path) \subseteq fs)

\* A download to a/b/c/file.txt that returned, with the chain in place.
C9_Witness ==
    /\ call.op = "download"
    /\ pc = "returned"
    /\ call.dest_path = "a/b/c/file.txt"
    /\ {"a", "a/b", "a/b/c"} \subseteq fs
    /\ result.value = "a/b/c/file.txt"

Starting == pc = "idle" /\ pc' # "idle"

\* C10: AWS_PROFILE changes only as an operation is called with a non-empty
\* profile, to that profile, and the session is built with it in place; the
\* value stays through the call and after it, returned or raised; a call
\* with no profile leaves it as it is and builds its session, with no
\* profile name, in the environment an earlier call left.
C10_ProfileEnvironment ==
    [][/\ environ' # environ =>
              /\ Starting
              /\ call'.aws_profile \notin {None, ""}
              /\ environ' = call'.aws_profile
       /\ (Starting /\ call'.aws_profile \notin {None, ""}) =>
              /\ environ' = call'.aws_profile
              /\ session'.built
              /\ session'.env_profile = call'.aws_profile
              /\ session'.profile_name = call'.aws_profile
       /\ (Starting /\ call'.aws_profile \in {None, ""}) =>
              /\ environ' = environ
              /\ session'.built
              /\ session'.env_profile = environ
              /\ session'.profile_name = None
       /\ ~Starting => environ' = environ]_vars

\* A second call, with no profile, runs in the environment the first one left.
C10_Witness ==
    /\ nops = 2
    /\ pc \in {"returned", "raised"}
    /\ call.aws_profile = None
    /\ environ = "dev"
    /\ session.env_profile = "dev"
    /\ session.profile_name = None

====
